---------------------------- MODULE Spec2Model ----------------------------
(***************************************************************************)
(* One invocation of lambda_handler (src/lambda_function.py): for each     *)
(* record of the inbound S3 event it downloads the object, resizes it with *)
(* Pillow when Pillow can be imported (copying it otherwise, or when the   *)
(* resize attempt raises), writes a metadata item to DynamoDB and          *)
(* publishes an SNS message.  The whole loop sits in one try block whose   *)
(* handler publishes a failure message and re-raises.                      *)
(*                                                                         *)
(* Every call of an external service is one step that either returns or    *)
(* raises.  Object keys are sequences of one-character strings so that     *)
(* os.path.splitext is computed, not assumed.  processed_at (a clock       *)
(* reading) is left out of the items: nothing in the handler reads it.     *)
(***************************************************************************)
EXTENDS Integers, Sequences, FiniteSets, TLC

\* ------------------------------------------------------------- bounds
\* Image widths and heights, and MAX_WIDTH / MAX_HEIGHT, range over 1..MaxDim.
MaxDim == 3
\* The encoded size of a resized image ranges over 1..MaxBytes.
MaxBytes == 2

\* ------------------------------------------------------------- inputs
\* "a.j": a name with an extension.
KeyPlain == <<"a", ".", "j">>
\* ".j": a leading dot is not an extension.
KeyHidden == <<".", "j">>
\* "d.x/a": the only dot is in the directory part.
KeyNested == <<"d", ".", "x", "/", "a">>

Keys == {KeyPlain, KeyHidden, KeyNested}

\* The objects of the source bucket: get_object's Body and ContentType.  The
\* bodies differ in content and in length (1, 2 and 4 bytes), so that an
\* encoded size in 1..MaxBytes can be below, equal to or above the original.
SourceObjects ==
  [k \in Keys |->
     [Body |-> [data |-> <<"upload", k>>, len |-> Len(k) - 1],
      ContentType |-> "image/jpeg"]]

\* The inbound events: event['Records'], each naming a bucket and a key.
S3Record(k) == [bucket |-> "uploads", key |-> k]

Events ==
  { [Records |-> <<S3Record(KeyPlain)>>],
    [Records |-> <<S3Record(KeyPlain), S3Record(KeyHidden)>>],
    [Records |-> <<S3Record(KeyNested), S3Record(KeyPlain)>>],
    [Records |-> <<S3Record(KeyHidden), S3Record(KeyHidden)>>] }

\* ------------------------------------------------------------- helpers
Max(S) == CHOOSE x \in S : \A y \in S : y <= x

\* str.rfind, 1-based, 0 when the character does not occur.
RFind(p, c) == Max({0} \cup {n \in 1..Len(p) : p[n] = c})

\* os.path.splitext (posixpath): the extension starts at the last dot of the
\* last path component, unless only dots precede it in that component.
Splitext(p) ==
  LET sepIndex == RFind(p, "/")
      dotIndex == RFind(p, ".")
  IN  IF /\ dotIndex > sepIndex
         /\ \E f \in (sepIndex + 1)..(dotIndex - 1) : p[f] # "."
      THEN <<SubSeq(p, 1, dotIndex - 1), SubSeq(p, dotIndex, Len(p))>>
      ELSE <<p, <<>>>>

Suffix == <<"_", "r", "e", "s", "i", "z", "e", "d">>

NewKeyAppended(key) == key \o Suffix

\* new_key = f"{name}_resized{ext}"
NewKey(key) == Splitext(key)[1] \o Suffix \o Splitext(key)[2]

\* Lines 56-66.  aspect_ratio = w / h is a float; int() truncates.  For
\* operands up to 8 CPython's double arithmetic gives exactly these
\* quotients (evaluated exhaustively); from 9 on the float quotient can fall
\* one short of an exact integer quotient (MAX_WIDTH 9, image 9x7 gives 6).
ScalingTriggeredGe(w, h, maxW, maxH) == w >= maxW \/ h >= maxH

ScalingTriggered(w, h, maxW, maxH) == w > maxW \/ h > maxH

NewDimensions(w, h, maxW, maxH) ==
  IF ScalingTriggered(w, h, maxW, maxH)
  THEN IF w > h
       THEN <<maxW, (maxW * h) \div w>>
       ELSE <<(maxH * w) \div h, maxH>>
  ELSE <<w, h>>

\* Line 137.
StatusAlwaysResized(available) == "resized"

Status(available) == IF available THEN "resized" ELSE "copied"

EmptyDict == [x \in {} |-> 0]

NoContent == [data |-> <<>>, len |-> 0]

\* dict.update: the right operand's keys win.
Update(item, extra) == extra @@ item

Last(s) == s[Len(s)]

\* ------------------------------------------------------------- state
VARIABLES
  MAX_WIDTH, MAX_HEIGHT, SNS_TOPIC_ARN,   \* configuration (lines 13-15)
  event,                                  \* the handler's argument
  pc, i, exc,                             \* control: place, loop index, caught e
  pillow_available,
  object_key, image_content, original_size, content_type, new_key,
  original_width, original_height, new_width, new_height,
  resized_content, resized_size, dimensions, resize_error, image_id,
  resized_bucket,                         \* objects of RESIZED_BUCKET
  table,                                  \* items of the DynamoDB table
  sns,                                    \* messages published to the topic
  calls,                                  \* every service call made, in order
  uuids                                   \* uuid4 values drawn so far

config == <<MAX_WIDTH, MAX_HEIGHT, SNS_TOPIC_ARN, event>>
fetched == <<object_key, image_content, original_size, content_type, new_key>>
sizes == <<original_width, original_height, new_width, new_height>>
outcome == <<resized_content, resized_size, dimensions, resize_error>>
stores == <<resized_bucket, table, sns>>

vars == <<config, pc, i, exc, pillow_available, fetched, sizes, outcome,
          image_id, stores, calls, uuids>>

Call(op, ok) == [op |-> op, rec |-> i, ok |-> ok]

Init ==
  /\ MAX_WIDTH \in 1..MaxDim
  /\ MAX_HEIGHT \in 1..MaxDim
  /\ SNS_TOPIC_ARN \in {"", "arn:topic"}
  /\ event \in Events
  /\ pc = "import"
  /\ i = 0
  /\ exc = ""
  /\ pillow_available = FALSE
  /\ object_key = <<>>
  /\ image_content = NoContent
  /\ original_size = 0
  /\ content_type = ""
  /\ new_key = <<>>
  /\ original_width = 0
  /\ original_height = 0
  /\ new_width = 0
  /\ new_height = 0
  /\ resized_content = NoContent
  /\ resized_size = 0
  /\ dimensions = EmptyDict
  /\ resize_error = ""
  /\ image_id = 0
  /\ resized_bucket = EmptyDict
  /\ table = <<>>
  /\ sns = <<>>
  /\ calls = <<>>
  /\ uuids = 0

\* Lines 22-29: from PIL import Image succeeds or raises ImportError.
ImportPillow ==
  /\ pc = "import"
  /\ \E available \in BOOLEAN : pillow_available' = available
  /\ pc' = "for"
  /\ UNCHANGED <<config, i, exc, fetched, sizes, outcome, image_id, stores,
                 calls, uuids>>

\* Lines 31-35: the loop takes the next record.  The locals of the previous
\* iteration are never read again and are cleared here.
NextRecord ==
  /\ pc = "for"
  /\ i < Len(event.Records)
  /\ i' = i + 1
  /\ object_key' = event.Records[i + 1].key
  /\ image_content' = NoContent
  /\ original_size' = 0
  /\ content_type' = ""
  /\ new_key' = <<>>
  /\ original_width' = 0
  /\ original_height' = 0
  /\ new_width' = 0
  /\ new_height' = 0
  /\ resized_content' = NoContent
  /\ resized_size' = 0
  /\ dimensions' = EmptyDict
  /\ resize_error' = ""
  /\ image_id' = 0
  /\ pc' = "get_object"
  /\ UNCHANGED <<config, exc, pillow_available, stores, calls, uuids>>

\* Lines 197-203: the loop is exhausted, statusCode 200 is returned.
Return200 ==
  /\ pc = "for"
  /\ i = Len(event.Records)
  /\ pc' = "returned"
  /\ UNCHANGED <<config, i, exc, pillow_available, fetched, sizes, outcome,
                 image_id, stores, calls, uuids>>

\* Lines 38-44: download the object, derive the destination key.
GetObject ==
  /\ pc = "get_object"
  /\ \/ /\ image_content' = SourceObjects[object_key].Body
        /\ original_size' = SourceObjects[object_key].Body.len
        /\ content_type' = SourceObjects[object_key].ContentType
        /\ new_key' = NewKey(object_key)
        /\ calls' = Append(calls, Call("get_object", TRUE))
        /\ pc' = IF pillow_available THEN "resize" ELSE "copy_object"
        /\ UNCHANGED <<object_key, exc>>
     \/ /\ calls' = Append(calls, Call("get_object", FALSE))
        /\ exc' = "get_object"
        /\ pc' = "except"
        /\ UNCHANGED fetched
  /\ UNCHANGED <<config, i, pillow_available, sizes, outcome, image_id,
                 stores, uuids>>

\* Lines 50-80: open, compute the dimensions, resize, encode.  Image.open
\* may raise before any dimension is known; Image.resize raises ValueError
\* when a requested dimension is below 1.  A failure of resize or save with
\* valid dimensions reaches the same handler as the first.
ResizeImage ==
  /\ pc = "resize"
  /\ \/ /\ resize_error' = "transform"
        /\ pc' = "fallback"
        /\ calls' = Append(calls, Call("resize", FALSE))
        /\ UNCHANGED <<sizes, resized_content, resized_size>>
     \/ \E w \in 1..MaxDim, h \in 1..MaxDim, n \in 1..MaxBytes :
          LET new == NewDimensions(w, h, MAX_WIDTH, MAX_HEIGHT) IN
          /\ original_width' = w
          /\ original_height' = h
          /\ new_width' = new[1]
          /\ new_height' = new[2]
          /\ IF new[1] < 1 \/ new[2] < 1
             THEN /\ resize_error' = "transform"
                  /\ pc' = "fallback"
                  /\ calls' = Append(calls, Call("resize", FALSE))
                  /\ UNCHANGED <<resized_content, resized_size>>
             ELSE /\ resized_content' = [data |-> <<"resized", new[1], new[2]>>,
                                         len |-> n]
                  /\ resized_size' = n
                  /\ pc' = "put_object"
                  /\ calls' = Append(calls, Call("resize", TRUE))
                  /\ UNCHANGED resize_error
  /\ UNCHANGED <<config, i, exc, pillow_available, fetched, dimensions,
                 image_id, stores, uuids>>

\* Lines 83-98: upload the resized image; still inside the inner try.
PutObject ==
  /\ pc = "put_object"
  /\ \/ /\ resized_bucket' =
             (new_key :> [Body |-> resized_content, ContentType |-> content_type])
             @@ resized_bucket
        /\ dimensions' = [original_width |-> original_width,
                          original_height |-> original_height,
                          resized_width |-> new_width,
                          resized_height |-> new_height]
        /\ calls' = Append(calls, Call("put_object", TRUE))
        /\ pc' = "put_item"
        /\ UNCHANGED resize_error
     \/ /\ resize_error' = "put_object"
        /\ calls' = Append(calls, Call("put_object", FALSE))
        /\ pc' = "fallback"
        /\ UNCHANGED <<resized_bucket, dimensions>>
  /\ UNCHANGED <<config, i, exc, pillow_available, fetched, sizes,
                 resized_content, resized_size, image_id, table, sns, uuids>>

\* copy_object: S3 copies the source object as it is.
CopiedObject(key, ctype) ==
  [Body |-> SourceObjects[key].Body, ContentType |-> ctype]

\* Lines 100-110: except Exception as resize_error: copy the original.
FallbackCopy ==
  /\ pc = "fallback"
  /\ \/ /\ resized_bucket' =
             (new_key :> CopiedObject(object_key, content_type)) @@ resized_bucket
        /\ resized_size' = original_size
        /\ dimensions' = EmptyDict
        /\ calls' = Append(calls, Call("copy_object", TRUE))
        /\ pc' = "put_item"
        /\ UNCHANGED exc
     \/ /\ calls' = Append(calls, Call("copy_object", FALSE))
        /\ exc' = "copy_object"
        /\ pc' = "except"
        /\ UNCHANGED <<resized_bucket, resized_size, dimensions>>
  /\ UNCHANGED <<config, i, pillow_available, fetched, sizes, resized_content,
                 resize_error, image_id, table, sns, uuids>>

\* Lines 111-121: no Pillow, just copy.
CopyObject ==
  /\ pc = "copy_object"
  /\ \/ /\ resized_bucket' =
             (new_key :> CopiedObject(object_key, content_type)) @@ resized_bucket
        /\ resized_size' = original_size
        /\ dimensions' = EmptyDict
        /\ calls' = Append(calls, Call("copy_object", TRUE))
        /\ pc' = "put_item"
        /\ UNCHANGED exc
     \/ /\ calls' = Append(calls, Call("copy_object", FALSE))
        /\ exc' = "copy_object"
        /\ pc' = "except"
        /\ UNCHANGED <<resized_bucket, resized_size, dimensions>>
  /\ UNCHANGED <<config, i, pillow_available, fetched, sizes, resized_content,
                 resize_error, image_id, table, sns, uuids>>

\* Lines 127-143: the item, with the dimensions merged in when there are any.
MetadataItem(id) ==
  LET metadata_item ==
        [image_id |-> id,
         original_bucket |-> event.Records[i].bucket,
         original_key |-> object_key,
         processed_bucket |-> "RESIZED_BUCKET",
         processed_key |-> new_key,
         original_size |-> original_size,
         resized_size |-> resized_size,
         content_type |-> content_type,
         status |-> Status(pillow_available),
         pillow_used |-> pillow_available]
  IN  IF DOMAIN dimensions # {}
      THEN Update(metadata_item, dimensions)
      ELSE metadata_item

\* Lines 124-146: draw a uuid, write the item.
PutItem ==
  /\ pc = "put_item"
  /\ uuids' = uuids + 1
  /\ image_id' = uuids + 1
  /\ \/ /\ table' = Append(table, MetadataItem(uuids + 1))
        /\ calls' = Append(calls, Call("put_item", TRUE))
        /\ pc' = IF SNS_TOPIC_ARN # "" THEN "publish" ELSE "for"
        /\ UNCHANGED exc
     \/ /\ calls' = Append(calls, Call("put_item", FALSE))
        /\ exc' = "put_item"
        /\ pc' = "except"
        /\ UNCHANGED table
  /\ UNCHANGED <<config, i, pillow_available, fetched, sizes, outcome,
                 resized_bucket, sns>>

\* Lines 149-195: the success message, one of two texts.
PublishComplete ==
  /\ pc = "publish"
  /\ \/ /\ sns' = Append(sns,
                    [Subject |-> "Image Processing Complete",
                     Message |-> IF pillow_available /\ DOMAIN dimensions # {}
                                 THEN "Image Resized Successfully"
                                 ELSE "Image Processed Successfully",
                     image_id |-> image_id])
        /\ calls' = Append(calls, Call("publish", TRUE))
        /\ pc' = "for"
        /\ UNCHANGED exc
     \/ /\ calls' = Append(calls, Call("publish", FALSE))
        /\ exc' = "publish"
        /\ pc' = "except"
        /\ UNCHANGED sns
  /\ UNCHANGED <<config, i, pillow_available, fetched, sizes, outcome,
                 image_id, resized_bucket, table, uuids>>

\* What follows the except block.  Line 219: raise e.
AfterExceptContinue == "for"

AfterExcept == "raised"

\* Lines 205-219: publish the failure (a failure of that publish is only
\* printed), then re-raise.
HandleException ==
  /\ pc = "except"
  /\ IF SNS_TOPIC_ARN # ""
     THEN \/ /\ sns' = Append(sns,
                         [Subject |-> "Image Processing Failed",
                          Message |-> exc,
                          image_id |-> 0])
             /\ calls' = Append(calls, Call("publish_failed", TRUE))
          \/ /\ calls' = Append(calls, Call("publish_failed", FALSE))
             /\ UNCHANGED sns
     ELSE UNCHANGED <<sns, calls>>
  /\ pc' = AfterExcept
  /\ UNCHANGED <<config, i, exc, pillow_available, fetched, sizes, outcome,
                 image_id, resized_bucket, table, uuids>>

Next ==
  \/ ImportPillow
  \/ NextRecord
  \/ Return200
  \/ GetObject
  \/ ResizeImage
  \/ PutObject
  \/ FallbackCopy
  \/ CopyObject
  \/ PutItem
  \/ PublishComplete
  \/ HandleException

Spec == Init /\ [][Next]_vars

\* ------------------------------------------------------------- claims
HasDimensions(item) ==
  {"original_width", "original_height", "resized_width", "resized_height"}
    \subseteq DOMAIN item

NoDimensions(item) ==
  {"original_width", "original_height", "resized_width", "resized_height"}
    \cap DOMAIN item = {}

\* The item of the record being processed has been written.
CurrentRecorded == table # <<>> /\ image_id # 0 /\ Last(table).image_id = image_id

\* The dimensions of the record being processed have been computed.
DimensionsComputed == original_width > 0

Failed(n, ops) == calls[n].op \in ops /\ ~calls[n].ok

Succeeded(n, ops) == calls[n].op \in ops /\ calls[n].ok

\* The key the destination is derived at: K-without-E + "_resized" + E.
DerivedKey(key) == Splitext(key)[1] \o Suffix \o Splitext(key)[2]

ItemsOf(key) == {n \in DOMAIN table : table[n].original_key = key}

RecordsOf(key) ==
  {k \in 1..Len(event.Records) : event.Records[k].key = key}

\* C1: whenever scaling is triggered, the computed dimensions fit within the
\* configured maximum: new_width <= MAX_WIDTH and new_height <= MAX_HEIGHT.
C1_ScaledFitsWithinMax ==
  (DimensionsComputed
     /\ ScalingTriggered(original_width, original_height, MAX_WIDTH, MAX_HEIGHT))
  => (new_width <= MAX_WIDTH /\ new_height <= MAX_HEIGHT)

\* C2: every item written has the four dimension fields if and only if its
\* status is 'resized'.
C2_DimensionsIffResized ==
  \A n \in DOMAIN table :
    HasDimensions(table[n]) <=> (table[n].status = "resized")

\* C3: when Pillow is available, the resize attempt raised and the fallback
\* copy succeeded, the item written has status 'copied', pillow_used false
\* and resized_size = original_size, and no failure notification is
\* attempted for that record.
C3_FallbackRecordedAsCopied ==
  (CurrentRecorded /\ resize_error # "")
  => /\ Last(table).status = "copied"
     /\ Last(table).pillow_used = FALSE
     /\ Last(table).resized_size = Last(table).original_size
     /\ \A n \in DOMAIN calls :
          calls[n].rec = i => calls[n].op # "publish_failed"

\* C4 as stated: when the handler has ended with a fatal failure on one
\* record, every later record of the batch was still fetched and recorded.
C4_LaterEventsProcessed ==
  pc = "raised"
  => \A k \in (i + 1)..Len(event.Records) :
       /\ \E n \in DOMAIN calls :
            Succeeded(n, {"get_object"}) /\ calls[n].rec = k
       /\ \E n \in DOMAIN calls :
            Succeeded(n, {"put_item"}) /\ calls[n].rec = k

\* C4 as amended: a fatal failure (get_object, copy_object, put_item or the
\* success publish raising) ends the invocation: the only call after it is
\* the one failure publish for the same record, so no later record of the
\* batch is fetched, written, recorded or notified, and the handler never
\* returns 200.
C4_FatalFailureEndsInvocation ==
  \A n \in DOMAIN calls :
    Failed(n, {"get_object", "copy_object", "put_item", "publish"})
    => /\ \A m \in DOMAIN calls :
            m > n => /\ m = n + 1
                     /\ calls[m].op = "publish_failed"
                     /\ calls[m].rec = calls[n].rec
       /\ pc \in {"except", "raised"}
       /\ i = calls[n].rec

\* Witness of C4: the first of two records failed fatally, the handler has
\* raised, and nothing was done for the second record.
C4_Witness ==
  /\ pc = "raised"
  /\ i = 1
  /\ Len(event.Records) = 2
  /\ \E n \in DOMAIN calls : Failed(n, {"copy_object"})
  /\ \A n \in DOMAIN calls : calls[n].rec = 1

\* C5: a failure of get_object, put_object, copy_object or put_item is fatal
\* for its record: no item is written for that record, and with a topic
\* configured exactly one failure notification is attempted once the
\* handler has ended.
C5_StorageFailureIsFatal ==
  \A n \in DOMAIN calls :
    Failed(n, {"get_object", "put_object", "copy_object", "put_item"})
    => /\ ~\E m \in DOMAIN calls :
            Succeeded(m, {"put_item"}) /\ calls[m].rec = calls[n].rec
       /\ (pc \in {"raised", "returned"} /\ SNS_TOPIC_ARN # "")
          => Cardinality({m \in DOMAIN calls :
                            calls[m].op = "publish_failed"
                            /\ calls[m].rec = calls[n].rec}) = 1

\* C6: a failed publish (of the success or of the failure message) is
\* swallowed: it is never the error the handler ends with, no failure
\* notification follows it, and a failed success publish does not take the
\* handler to its except block.
C6_PublishFailureSwallowed ==
  \A n \in DOMAIN calls :
    Failed(n, {"publish", "publish_failed"})
    => /\ exc # "publish"
       /\ ~\E m \in DOMAIN calls : m > n /\ calls[m].op = "publish_failed"
       /\ (calls[n].op = "publish" => pc \notin {"except", "raised"})

\* C7: the computed dimensions are at least 1 x 1.
C7_DimensionsAtLeastOne ==
  DimensionsComputed => (new_width >= 1 /\ new_height >= 1)

\* C8: without Pillow no resize or upload of a resized image is attempted;
\* every copy leaves at the destination key the source object's bytes, and
\* every item has status 'copied', resized_size = original_size and none of
\* the dimension fields.
C8_NoPillowCopies ==
  ~pillow_available
  => /\ \A n \in DOMAIN calls : calls[n].op \notin {"resize", "put_object"}
     /\ \A n \in DOMAIN calls :
          Succeeded(n, {"copy_object"})
          => LET key == event.Records[calls[n].rec].key IN
             /\ DerivedKey(key) \in DOMAIN resized_bucket
             /\ resized_bucket[DerivedKey(key)].Body = SourceObjects[key].Body
     /\ \A n \in DOMAIN table :
          /\ table[n].status = "copied"
          /\ table[n].resized_size = table[n].original_size
          /\ table[n].resized_size = SourceObjects[table[n].original_key].Body.len
          /\ NoDimensions(table[n])

\* Witness of C8: without Pillow a batch of two records was copied and
\* recorded, and the handler returned.
C8_Witness ==
  /\ ~pillow_available
  /\ pc = "returned"
  /\ Len(table) = 2
  /\ \A n \in DOMAIN table :
       table[n].processed_key \in DOMAIN resized_bucket

\* C9: an image within MAX_WIDTH x MAX_HEIGHT keeps its dimensions, and the
\* item the resize path writes for it has status 'resized' and resized
\* dimensions equal to the original ones.
C9_WithinBoundsUnchanged ==
  /\ (DimensionsComputed
        /\ original_width <= MAX_WIDTH /\ original_height <= MAX_HEIGHT)
     => (new_width = original_width /\ new_height = original_height)
  /\ \A n \in DOMAIN table :
       (HasDimensions(table[n])
          /\ table[n].original_width <= MAX_WIDTH
          /\ table[n].original_height <= MAX_HEIGHT)
       => /\ table[n].status = "resized"
          /\ table[n].resized_width = table[n].original_width
          /\ table[n].resized_height = table[n].original_height

\* Witness of C9: an item was written for an image that is as wide as
\* MAX_WIDTH allows and lower than MAX_HEIGHT, with its dimensions kept.
C9_Witness ==
  \E n \in DOMAIN table :
    /\ HasDimensions(table[n])
    /\ table[n].original_width = MAX_WIDTH
    /\ table[n].original_height < MAX_HEIGHT
    /\ table[n].original_width > table[n].original_height
    /\ table[n].resized_width = table[n].original_width
    /\ table[n].resized_height = table[n].original_height

=============================================================================
